---- MODULE Spec2Model ----
(***************************************************************************)
(* Distance resolution engine of the logistics application                *)
(* (src/app/services/routing.py): address normalisation, the distance     *)
(* cache table, the ORS -> OSRM -> Haversine provider chain and the        *)
(* resolves that run against them, one at a time and concurrently; the     *)
(* throttled geocode proxy (src/app/blueprints/api.py), the pricing        *)
(* formula with the company settings form (src/app/services/pricing.py,    *)
(* src/app/blueprints/company.py) and shipment creation                    *)
(* (src/app/blueprints/shipments.py).                                      *)
(*                                                                         *)
(* Texts are sequences of one-character strings.  Distances are integers  *)
(* in hundredths of a kilometre (the code rounds every distance to two    *)
(* decimals).  Coordinates are <<lat, lon>> in units of 1e-7 degree.      *)
(***************************************************************************)
EXTENDS Integers, Sequences, FiniteSets, TLC

VARIABLES
    distances_cache,  \* rows of table distances_cache: [origin, dest, distance_km]
    offices,          \* table offices: id -> [address, city, lat, lon]
    ORS_API_KEY,      \* TRUE when the OpenRouteService key is configured
    proc,             \* per resolve in flight: position and local variables
    returned,         \* history: <<key_o, key_d, value>> of every distance returned so far
    last_stored,      \* history: per key pair, value of the latest resolve that returned with its value in the cache
    nresolves,        \* number of resolves started so far
    GEO_THROTTLE,     \* routing.GEO_THROTTLE: pairs <<ip, last_request_ts>>, one per ip
    clock,            \* time.time(), in ticks
    req,              \* per /api/geocode request in flight: position and local variables
    last_admitted,    \* history: pairs <<ip, time>> of the latest request of each ip that passed the throttle
    company,          \* the row id=1 of table company
    quote,            \* the latest compute_price call: arguments, coefficients read, result
    shipments,        \* rows of table shipments, in insertion order
    responses,        \* history: the outcome of every shipments_new request
    session,          \* flask session: the logged-in user (its role), if any
    reply             \* the latest answer of a guarded route or of the dashboard

\* the state of the geocode proxy, of pricing, of shipment registration and of
\* the login session
web == <<GEO_THROTTLE, clock, req, last_admitted, company, quote, shipments, responses,
         session, reply>>

\* the state of the distance resolution engine
resolve_vars == <<distances_cache, offices, ORS_API_KEY, proc, returned, last_stored, nresolves>>

\* the state of pricing and of shipment registration
sales_vars == <<company, quote, shipments, responses>>

\* the state of the login session
auth_vars == <<session, reply>>

vars == <<distances_cache, offices, ORS_API_KEY, proc, returned, last_stored, nresolves, web>>

\* Python's None for an optional value; a present value v is <<v>>, and a
\* coordinate pair is the tuple <<lat, lon>> (truthy exactly when non-empty).
None == <<>>
Some(v) == <<v>>

(***************************************************************************)
(* Bounds.                                                                 *)
(***************************************************************************)
\* resolves started in a run of Spec (one at a time) and of SpecConc (two in parallel)
MaxResolves == 2
MaxConcResolves == 2

Procs == {1, 2}

(***************************************************************************)
(* Text helpers: str.lower() and str.strip().                              *)
(***************************************************************************)
Uppers == <<"A","B","C","D","E","F","G","H","I","J","K","L","M",
            "N","O","P","Q","R","S","T","U","V","W","X","Y","Z">>
Lowers == <<"a","b","c","d","e","f","g","h","i","j","k","l","m",
            "n","o","p","q","r","s","t","u","v","w","x","y","z">>

Whitespace == {" ", "\t", "\n"}

LowerChar(c) ==
    IF \E i \in 1..Len(Uppers) : Uppers[i] = c
    THEN Lowers[CHOOSE i \in 1..Len(Uppers) : Uppers[i] = c]
    ELSE c

lower(s) == [i \in 1..Len(s) |-> LowerChar(s[i])]

UpperChar(c) ==
    IF \E i \in 1..Len(Lowers) : Lowers[i] = c
    THEN Uppers[CHOOSE i \in 1..Len(Lowers) : Lowers[i] = c]
    ELSE c

upper(s) == [i \in 1..Len(s) |-> UpperChar(s[i])]

RECURSIVE lstrip(_)
lstrip(s) == IF s # <<>> /\ Head(s) \in Whitespace THEN lstrip(Tail(s)) ELSE s

RECURSIVE rstrip(_)
rstrip(s) ==
    IF s # <<>> /\ s[Len(s)] \in Whitespace
    THEN rstrip(SubSeq(s, 1, Len(s) - 1))
    ELSE s

strip(s) == rstrip(lstrip(s))

\* the key keeps the letter case of the text
CacheKey_NoLower(addr) == strip(addr)

\* key_o = origin_addr.strip().lower()
CacheKey(addr) ==
    lower(strip(addr))

(***************************************************************************)
(* The offices table and the texts used by the forms.                      *)
(***************************************************************************)
BulgariaSuffix == <<",", " ", "B", "u", "l", "g", "a", "r", "i", "a">>

\* (42.6977, 23.3219), (-62.6076788, 102.888125), (62.6076787, -77.1118751)
Sofia     == <<426977000, 233219000>>
FarSouth  == <<-626076788, 1028881250>>
FarNorth  == <<626076787, -771118751>>

\* office 1 has stored coordinates, office 2 was saved after a failed geocoding
OfficeTable ==
    (1 :> [address |-> <<"A">>, city |-> <<"S">>, lat |-> Some(Sofia[1]), lon |-> Some(Sofia[2])])
 @@ (2 :> [address |-> <<"B">>, city |-> <<"S">>, lat |-> None, lon |-> None])

\* an office id without a stored office yields the text formatted from empty columns
office_full_address_Placeholder(office_id) ==
    IF office_id = None \/ office_id = Some(0) THEN None
    ELSE IF office_id[1] \notin DOMAIN offices THEN <<"?">> \o BulgariaSuffix
    ELSE offices[office_id[1]].address \o <<",", " ">> \o offices[office_id[1]].city \o BulgariaSuffix

\* f"{o['address']}, {o['city']}, Bulgaria"
office_full_address(office_id) ==
    IF office_id = None \/ office_id = Some(0) THEN None
    ELSE IF office_id[1] \notin DOMAIN offices THEN None
    ELSE offices[office_id[1]].address \o <<",", " ">> \o offices[office_id[1]].city \o BulgariaSuffix

\* latitude and longitude are returned in the wrong order
office_coords_LonLat(office_id) ==
    IF office_id = None \/ office_id = Some(0) THEN None
    ELSE IF office_id[1] \in DOMAIN offices
            /\ offices[office_id[1]].lat # None /\ offices[office_id[1]].lon # None
         THEN <<offices[office_id[1]].lon[1], offices[office_id[1]].lat[1]>>
         ELSE None

office_coords(office_id) ==
    IF office_id = None \/ office_id = Some(0) THEN None
    ELSE IF office_id[1] \in DOMAIN offices
            /\ offices[office_id[1]].lat # None /\ offices[office_id[1]].lon # None
         THEN <<offices[office_id[1]].lat[1], offices[office_id[1]].lon[1]>>
         ELSE None

(***************************************************************************)
(* haversine_km on the coordinates of the model, as the Python function    *)
(* evaluates it in IEEE doubles (hundredths of km).  For the two           *)
(* near-antipodal points the term a exceeds 1 by rounding                  *)
(* (a = 1.0000000000000002) and math.asin raises ValueError.               *)
(***************************************************************************)
HaversineDomainError(lat1, lon1, lat2, lon2) ==
    {<<lat1, lon1>>, <<lat2, lon2>>} = {FarSouth, FarNorth}

haversine_km(lat1, lon1, lat2, lon2) ==
    LET ends == {<<lat1, lon1>>, <<lat2, lon2>>}
    IN  CASE Cardinality(ends) = 1       -> 0
          [] ends = {Sofia, FarSouth}    -> 1364832
          [] ends = {Sofia, FarNorth}    -> 636677

(***************************************************************************)
(* The external services.  A geocoder query either fails (transport error, *)
(* timeout, malformed or empty answer) or yields the place the geocoder    *)
(* currently has for the address, which need not be the coordinates stored *)
(* with an office; a routing query either fails or yields a route length   *)
(* in metres.                                                              *)
(***************************************************************************)
GeocoderAnswers(addr) ==
    LET q == lower(strip(addr))
    IN  {None} \cup
        (CASE q = <<"y">> -> {FarNorth}
           [] q = <<"a", ",", " ", "s">> \o lower(BulgariaSuffix) -> {FarSouth}
           [] OTHER -> {})

OrsMeters  == {140996}
OsrmMeters == {150004}

\* round(meters / 1000.0, 2), in hundredths of km
RoundKm(meters) == (meters + 5) \div 10

GeocodeCall(addr) == [svc |-> "nominatim", q |-> addr]
OrsCall  == [svc |-> "ors", q |-> <<>>]
OsrmCall == [svc |-> "osrm", q |-> <<>>]

(***************************************************************************)
(* The geo functions.  Each yields the set of its possible outcomes: the   *)
(* value it returns and the outbound calls it made.                        *)
(***************************************************************************)
\* a lookup that found nothing is sent a second time
geocode_address_Retry(addr) ==
    IF addr = <<>>
    THEN {[ll |-> None, calls |-> <<>>]}
    ELSE {[ll |-> a, calls |-> IF a = None THEN <<GeocodeCall(addr), GeocodeCall(addr)>>
                                           ELSE <<GeocodeCall(addr)>>]
            : a \in GeocoderAnswers(addr)}

geocode_address(addr) ==
    IF addr = <<>>
    THEN {[ll |-> None, calls |-> <<>>]}
    ELSE {[ll |-> a, calls |-> <<GeocodeCall(addr)>>] : a \in GeocoderAnswers(addr)}

ors_distance_km_coords(o_ll, d_ll) ==
    IF ~ORS_API_KEY
    THEN {[dist |-> None, calls |-> <<>>]}
    ELSE {[dist |-> None, calls |-> <<OrsCall>>]}
         \cup {[dist |-> Some(RoundKm(m)), calls |-> <<OrsCall>>] : m \in OrsMeters}

osrm_distance_km_coords(o_ll, d_ll) ==
    {[dist |-> None, calls |-> <<OsrmCall>>]}
    \cup {[dist |-> Some(RoundKm(m)), calls |-> <<OsrmCall>>] : m \in OsrmMeters}

\* both addresses are geocoded before the credential is looked at
ors_distance_km_GeocodesFirst(origin_addr, dest_addr) ==
    UNION {
      IF o.ll = None \/ d.ll = None
      THEN {[dist |-> None, calls |-> o.calls \o d.calls]}
      ELSE {[dist |-> r.dist, calls |-> o.calls \o d.calls \o r.calls]
              : r \in ors_distance_km_coords(o.ll, d.ll)}
      : o \in geocode_address(origin_addr), d \in geocode_address(dest_addr)}

ors_distance_km(origin_addr, dest_addr) ==
    IF ~ORS_API_KEY
    THEN {[dist |-> None, calls |-> <<>>]}
    ELSE UNION {
           IF o.ll = None \/ d.ll = None
           THEN {[dist |-> None, calls |-> o.calls \o d.calls]}
           ELSE {[dist |-> r.dist, calls |-> o.calls \o d.calls \o r.calls]
                   : r \in ors_distance_km_coords(o.ll, d.ll)}
           : o \in geocode_address(origin_addr), d \in geocode_address(dest_addr)}

osrm_distance_km(origin_addr, dest_addr) ==
    UNION {
      IF o.ll = None \/ d.ll = None
      THEN {[dist |-> None, calls |-> o.calls \o d.calls]}
      ELSE {[dist |-> r.dist, calls |-> o.calls \o d.calls \o r.calls]
              : r \in osrm_distance_km_coords(o.ll, d.ll)}
      : o \in geocode_address(origin_addr), d \in geocode_address(dest_addr)}

(***************************************************************************)
(* Table distances_cache, UNIQUE(origin, dest).                            *)
(***************************************************************************)
\* SELECT distance_km FROM distances_cache WHERE origin=? AND dest=?
CacheSelect(rows, key_o, key_d) == {r \in rows : r.origin = key_o /\ r.dest = key_d}

\* the two key columns are bound in the wrong order
InsertOrReplace_SwappedKeys(rows, key_o, key_d, dist) ==
    (rows \ CacheSelect(rows, key_d, key_o))
    \cup {[origin |-> key_d, dest |-> key_o, distance_km |-> dist]}

\* a plain INSERT on a table without the UNIQUE constraint
InsertOrReplace_Insert(rows, key_o, key_d, dist) ==
    rows \cup {[origin |-> key_o, dest |-> key_d, distance_km |-> dist]}

\* the table is emptied before the row is inserted
InsertOrReplace_Truncate(rows, key_o, key_d, dist) ==
    {[origin |-> key_o, dest |-> key_d, distance_km |-> dist]}

\* INSERT OR IGNORE: the row already stored for the key pair is kept
InsertOrReplace_Ignore(rows, key_o, key_d, dist) ==
    IF CacheSelect(rows, key_o, key_d) # {}
    THEN rows
    ELSE rows \cup {[origin |-> key_o, dest |-> key_d, distance_km |-> dist]}

\* INSERT OR REPLACE INTO distances_cache(origin, dest, distance_km) VALUES (?,?,?)
InsertOrReplace(rows, key_o, key_d, dist) ==
    (rows \ CacheSelect(rows, key_o, key_d))
    \cup {[origin |-> key_o, dest |-> key_d, distance_km |-> dist]}

\* a row stored for the opposite direction answers the lookup as well
CacheLookup_EitherDirection(rows, origin_addr, dest_addr) ==
    CacheSelect(rows, CacheKey(origin_addr), CacheKey(dest_addr))
    \cup CacheSelect(rows, CacheKey(dest_addr), CacheKey(origin_addr))

\* the lookup compares the stored keys with the texts as typed
CacheLookup_Raw(rows, origin_addr, dest_addr) == CacheSelect(rows, origin_addr, dest_addr)

\* lines 186-188: the row cached for the normalised address pair
CacheLookup(rows, origin_addr, dest_addr) ==
    CacheSelect(rows, CacheKey(origin_addr), CacheKey(dest_addr))

(***************************************************************************)
(* Form inputs.  An endpoint is the office checkbox, the office id field   *)
(* and the free address field of one side of the form.                     *)
(***************************************************************************)
Endpoint(on, office_id, address) == [office |-> on, office_id |-> office_id, address |-> address]

OfficeOneTyped ==
    <<" ", "a", ",", " ", "s", ",", " ", "B", "U", "L", "G", "A", "R", "I", "A", "\t">>

OriginInputs ==
    { Endpoint(TRUE,  Some(1), <<"y">>),        \* office with stored coordinates
      Endpoint(TRUE,  Some(2), <<>>),           \* office without coordinates
      Endpoint(FALSE, Some(2), OfficeOneTyped), \* free address, checkbox off
      Endpoint(TRUE,  None, <<"y">>) }          \* checkbox on, no office chosen

DestInputs ==
    { Endpoint(TRUE,  Some(2), <<>>),
      Endpoint(FALSE, None, <<" ", "Y">>),
      Endpoint(FALSE, None, lower(OfficeOneTyped)),
      Endpoint(TRUE,  Some(9), <<"y">>),        \* no such office
      Endpoint(FALSE, Some(1), <<>>) }          \* empty address

Form(o, d) ==
    [pickup_from_office |-> o.office, origin_office_id |-> o.office_id, pickup_address |-> o.address,
     to_office |-> d.office, destination_office_id |-> d.office_id, delivery_address |-> d.address]

Forms == {Form(o, d) : o \in OriginInputs, d \in DestInputs}

\* the forms of the concurrent resolves: two spellings of one address pair
ConcForms ==
    { Form(Endpoint(TRUE,  Some(1), <<>>), Endpoint(FALSE, None, <<" ", "Y">>)),
      Form(Endpoint(FALSE, None, OfficeOneTyped), Endpoint(FALSE, None, <<"y">>)) }

(***************************************************************************)
(* Table company (src/app/db.py): the single row of pricing coefficients, *)
(* in tenths.  init_db inserts the row with the column defaults.          *)
(***************************************************************************)
DefaultCompany ==
    [base_price_per_kg |-> 25, per_km_rate |-> 4,
     office_delivery_multiplier |-> 10, address_delivery_multiplier |-> 14,
     size_multiplier_s |-> 9, size_multiplier_m |-> 10, size_multiplier_l |-> 12]

\* no compute_price call has been made yet
NoQuote ==
    [weight_kg |-> 0, to_office |-> FALSE, distance_km |-> None, size |-> None,
     c |-> None, price |-> None]

\* one /api/geocode request: not started
IdleReq ==
    [pc |-> "idle", ip |-> "", now |-> 0, q |-> <<>>, since |-> None,
     admitted |-> FALSE, outcome |-> "", upstream |-> <<>>, status |-> 0, body |-> <<>>]

Handlers == {1, 2}

\* the web part at start-up: empty throttle map, seeded company row, no shipment
\* no request answered yet
NoReply == [route |-> "", user |-> None, status |-> 0, location |-> "", ran |-> FALSE]

InitWeb ==
    /\ GEO_THROTTLE = {}
    /\ req = [h \in Handlers |-> IdleReq]
    /\ last_admitted = {}
    /\ company = DefaultCompany
    /\ quote = NoQuote
    /\ shipments = <<>>
    /\ responses = <<>>
    /\ session = None
    /\ reply = NoReply

(***************************************************************************)
(* State of one resolve (one call of compute_distance_from_form).          *)
(***************************************************************************)
Idle ==
    [pc |-> "idle", form |-> None, origin_addr |-> None, dest_addr |-> None,
     key_o |-> None, key_d |-> None, o_ll |-> None, d_ll |-> None, dist |-> None,
     attempts |-> <<>>, calls |-> <<>>, hit |-> FALSE, wrote |-> FALSE, result |-> None,
     prior_returned |-> {}, prior_stored |-> {}]

Init ==
    /\ distances_cache = {}
    /\ offices = OfficeTable
    /\ ORS_API_KEY \in BOOLEAN
    /\ proc = [p \in Procs |-> Idle]
    /\ returned = {}
    /\ last_stored = {}
    /\ nresolves = 0
    /\ clock = 0
    /\ InitWeb

Finished(p) == proc[p].pc \in {"idle", "done", "raised"}

ValuesFor(hist, key_o, key_d) == {t[3] : t \in {u \in hist : u[1] = key_o /\ u[2] = key_d}}

Remember(hist, key_o, key_d, v) ==
    {u \in hist : ~(u[1] = key_o /\ u[2] = key_d)} \cup {<<key_o, key_d, v>>}

(***************************************************************************)
(* compute_distance_from_form, lines 165-190: read the form, derive the    *)
(* address texts, return None when one is missing, else look the           *)
(* normalised pair up in the cache and return the cached value on a hit.   *)
(***************************************************************************)
Begin(p, form, max) ==
    /\ Finished(p)
    /\ nresolves < max
    /\ nresolves' = nresolves + 1
    /\ LET origin_addr == IF form.pickup_from_office
                          THEN office_full_address(form.origin_office_id)
                          ELSE form.pickup_address
           dest_addr   == IF form.to_office
                          THEN office_full_address(form.destination_office_id)
                          ELSE form.delivery_address
           key_o == CacheKey(origin_addr)
           key_d == CacheKey(dest_addr)
           row   == CacheLookup(distances_cache, origin_addr, dest_addr)
           new   == [Idle EXCEPT !.form = form, !.origin_addr = origin_addr, !.dest_addr = dest_addr]
       IN  IF origin_addr = <<>> \/ dest_addr = <<>>
           THEN /\ proc' = [proc EXCEPT ![p] = [new EXCEPT !.pc = "done"]]
                /\ UNCHANGED <<returned, last_stored>>
           ELSE IF row # {}
           THEN \E r \in row :
                /\ proc' = [proc EXCEPT ![p] =
                              [new EXCEPT !.pc = "done", !.key_o = key_o, !.key_d = key_d,
                                          !.hit = TRUE, !.result = Some(r.distance_km),
                                          !.prior_returned = ValuesFor(returned, key_o, key_d),
                                          !.prior_stored = ValuesFor(last_stored, key_o, key_d)]]
                /\ returned' = returned \cup {<<key_o, key_d, r.distance_km>>}
                /\ last_stored' = Remember(last_stored, key_o, key_d, r.distance_km)
           ELSE /\ proc' = [proc EXCEPT ![p] =
                              [new EXCEPT !.pc = "coords", !.key_o = key_o, !.key_d = key_d,
                                          !.prior_returned = ValuesFor(returned, key_o, key_d),
                                          !.prior_stored = ValuesFor(last_stored, key_o, key_d)]]
                /\ UNCHANGED <<returned, last_stored>>
    /\ UNCHANGED <<distances_cache, offices, ORS_API_KEY, web>>

(***************************************************************************)
(* Lines 193-194: coordinates of the two endpoints.                        *)
(***************************************************************************)
Coordinates(p) ==
    /\ proc[p].pc = "coords"
    /\ LET form == proc[p].form
           origin == IF form.pickup_from_office
                     THEN {[ll |-> office_coords(form.origin_office_id), calls |-> <<>>]}
                     ELSE geocode_address(form.pickup_address)
           dest   == IF form.to_office
                     THEN {[ll |-> office_coords(form.destination_office_id), calls |-> <<>>]}
                     ELSE geocode_address(form.delivery_address)
       IN  \E o \in origin, d \in dest :
             proc' = [proc EXCEPT ![p].o_ll = o.ll, ![p].d_ll = d.ll,
                                  ![p].calls = @ \o o.calls \o d.calls,
                                  ![p].pc = IF o.ll # <<>> /\ d.ll # <<>>
                                            THEN "ors_coords" ELSE "ors_addr"]
    /\ UNCHANGED <<distances_cache, offices, ORS_API_KEY, returned, last_stored, nresolves, web>>

\* one attempt of the chain: record it, keep its distance, move on
Tried(st, tier, r, next) ==
    [st EXCEPT !.dist = r.dist,
               !.attempts = Append(@, [tier |-> tier, dist |-> r.dist]),
               !.calls = @ \o r.calls,
               !.pc = IF r.dist # None THEN "store" ELSE next]

\* line 198: dist = ors_distance_km_coords(...)
OrsCoords(p) ==
    /\ proc[p].pc = "ors_coords"
    /\ \E r \in ors_distance_km_coords(proc[p].o_ll, proc[p].d_ll) :
         proc' = [proc EXCEPT ![p] = Tried(@, "ors_coords", r, "osrm_coords")]
    /\ UNCHANGED <<distances_cache, offices, ORS_API_KEY, returned, last_stored, nresolves, web>>

\* the address tier is entered even when the demo provider answered
OsrmCoords_NoShortCircuit(p) ==
    /\ proc[p].pc = "osrm_coords"
    /\ \E r \in osrm_distance_km_coords(proc[p].o_ll, proc[p].d_ll) :
         proc' = [proc EXCEPT ![p] = [Tried(@, "osrm_coords", r, "ors_addr") EXCEPT !.pc = "ors_addr"]]
    /\ UNCHANGED <<distances_cache, offices, ORS_API_KEY, returned, last_stored, nresolves, web>>

\* lines 199-200: if dist is None: dist = osrm_distance_km_coords(...)
OsrmCoords(p) ==
    /\ proc[p].pc = "osrm_coords"
    /\ \E r \in osrm_distance_km_coords(proc[p].o_ll, proc[p].d_ll) :
         proc' = [proc EXCEPT ![p] = Tried(@, "osrm_coords", r, "ors_addr")]
    /\ UNCHANGED <<distances_cache, offices, ORS_API_KEY, returned, last_stored, nresolves, web>>

\* lines 202-203: if dist is None: dist = ors_distance_km(origin_addr, dest_addr)
OrsAddr(p) ==
    /\ proc[p].pc = "ors_addr"
    /\ \E r \in ors_distance_km(proc[p].origin_addr, proc[p].dest_addr) :
         proc' = [proc EXCEPT ![p] = Tried(@, "ors_addr", r, "osrm_addr")]
    /\ UNCHANGED <<distances_cache, offices, ORS_API_KEY, returned, last_stored, nresolves, web>>

\* lines 204-206 and 220: if dist is None: dist = osrm_distance_km(...); with no
\* distance and an endpoint without coordinates the function returns None
OsrmAddr(p) ==
    /\ proc[p].pc = "osrm_addr"
    /\ \E r \in osrm_distance_km(proc[p].origin_addr, proc[p].dest_addr) :
         proc' = [proc EXCEPT ![p] =
                    Tried(@, "osrm_addr", r,
                          IF proc[p].o_ll # <<>> /\ proc[p].d_ll # <<>> THEN "haversine" ELSE "done")]
    /\ UNCHANGED <<distances_cache, offices, ORS_API_KEY, returned, last_stored, nresolves, web>>

\* line 207: dist = haversine_km(...); a ValueError leaves the function
Haversine(p) ==
    /\ proc[p].pc = "haversine"
    /\ LET o_ll == proc[p].o_ll
           d_ll == proc[p].d_ll
       IN  IF HaversineDomainError(o_ll[1], o_ll[2], d_ll[1], d_ll[2])
           THEN proc' = [proc EXCEPT ![p].pc = "raised",
                                     ![p].attempts = Append(@, [tier |-> "haversine", dist |-> None])]
           ELSE proc' = [proc EXCEPT ![p] =
                           Tried(@, "haversine",
                                 [dist |-> Some(haversine_km(o_ll[1], o_ll[2], d_ll[1], d_ll[2])),
                                  calls |-> <<>>], "store")]
    /\ UNCHANGED <<distances_cache, offices, ORS_API_KEY, returned, last_stored, nresolves, web>>

\* the row is written under the texts as typed
Store_RawKeys(p) ==
    /\ proc[p].pc = "store"
    /\ LET st == proc[p]
           v  == st.dist[1]
       IN  \E ok \in BOOLEAN :
             /\ distances_cache' = IF ok THEN InsertOrReplace(distances_cache, st.origin_addr, st.dest_addr, v)
                                         ELSE distances_cache
             /\ proc' = [proc EXCEPT ![p].pc = "done", ![p].wrote = ok, ![p].result = st.dist]
             /\ returned' = returned \cup {<<st.key_o, st.key_d, v>>}
             /\ last_stored' = IF ok THEN Remember(last_stored, st.key_o, st.key_d, v) ELSE last_stored
    /\ UNCHANGED <<offices, ORS_API_KEY, nresolves, web>>

\* the exception of a failed write is not caught
Store_Unguarded(p) ==
    /\ proc[p].pc = "store"
    /\ LET st == proc[p]
           v  == st.dist[1]
       IN  \E ok \in BOOLEAN :
             /\ distances_cache' = IF ok THEN InsertOrReplace(distances_cache, st.key_o, st.key_d, v)
                                         ELSE distances_cache
             /\ proc' = IF ok
                        THEN [proc EXCEPT ![p].pc = "done", ![p].wrote = TRUE, ![p].result = st.dist]
                        ELSE [proc EXCEPT ![p].pc = "raised"]
             /\ returned' = IF ok THEN returned \cup {<<st.key_o, st.key_d, v>>} ELSE returned
             /\ last_stored' = IF ok THEN Remember(last_stored, st.key_o, st.key_d, v) ELSE last_stored
    /\ UNCHANGED <<offices, ORS_API_KEY, nresolves, web>>

\* lines 210-220: best-effort cache write (an exception of execute or commit
\* is swallowed), then return dist
Store(p) ==
    /\ proc[p].pc = "store"
    /\ LET st == proc[p]
           v  == st.dist[1]
       IN  \E ok \in BOOLEAN :
             /\ distances_cache' = IF ok THEN InsertOrReplace(distances_cache, st.key_o, st.key_d, v)
                                         ELSE distances_cache
             /\ proc' = [proc EXCEPT ![p].pc = "done", ![p].wrote = ok, ![p].result = st.dist]
             /\ returned' = returned \cup {<<st.key_o, st.key_d, v>>}
             /\ last_stored' = IF ok THEN Remember(last_stored, st.key_o, st.key_d, v) ELSE last_stored
    /\ UNCHANGED <<offices, ORS_API_KEY, nresolves, web>>

Step(p) ==
    \/ Coordinates(p)
    \/ OrsCoords(p)
    \/ OsrmCoords(p)
    \/ OrsAddr(p)
    \/ OsrmAddr(p)
    \/ Haversine(p)
    \/ Store(p)

\* resolves one at a time
Next ==
    \/ \E form \in Forms : Begin(1, form, MaxResolves)
    \/ Step(1)

Spec == Init /\ [][Next]_vars

\* two resolves in parallel
NextConc ==
    \/ \E p \in Procs, form \in ConcForms : Begin(p, form, MaxConcResolves)
    \/ \E p \in Procs : Step(p)

SpecConc == Init /\ [][NextConc]_vars

TypeOK ==
    /\ \A r \in distances_cache : r.distance_km \in Nat
    /\ nresolves \in 0..(MaxResolves + MaxConcResolves)

(***************************************************************************)
(* Properties.                                                             *)
(***************************************************************************)
Missed(p) == proc[p].origin_addr # <<>> /\ proc[p].dest_addr # <<>> /\ ~proc[p].hit

BothCoords(p) == proc[p].o_ll # <<>> /\ proc[p].d_ll # <<>>

\* the tiers a resolve with these coordinates walks, in the order of the code's docstring
TierOrder(p) ==
    (IF BothCoords(p) THEN <<"ors_coords", "osrm_coords">> ELSE <<>>)
    \o <<"ors_addr", "osrm_addr">>
    \o (IF BothCoords(p) THEN <<"haversine">> ELSE <<>>)

Tiers(p) == [i \in 1..Len(proc[p].attempts) |-> proc[p].attempts[i].tier]

\* C1: on a cache miss the attempts are made in the order premium-by-coordinates,
\* demo-by-coordinates, premium-by-address, demo-by-address, great-circle; every
\* attempt before the last one made yielded nothing, the walk stops only at a
\* success or at the end of the order, and the value returned is the value of the
\* first (hence only) attempt that yielded a distance.
C1_FixedOrderFirstSuccess ==
    \A p \in Procs :
      LET a == proc[p].attempts IN
      /\ Len(a) <= Len(TierOrder(p))
      /\ Tiers(p) = SubSeq(TierOrder(p), 1, Len(a))
      /\ \A i \in 1..(Len(a) - 1) : a[i].dist = None
      /\ (proc[p].pc = "done" /\ Missed(p)) =>
            /\ Len(a) >= 1
            /\ proc[p].result = a[Len(a)].dist
            /\ (a[Len(a)].dist = None => Len(a) = Len(TierOrder(p)))

\* a resolve that failed at premium-by-coordinates and demo-by-coordinates and
\* returned the distance of premium-by-address
C1_Witness ==
    \E p \in Procs :
      /\ proc[p].pc = "done" /\ Missed(p)
      /\ Tiers(p) = <<"ors_coords", "osrm_coords", "ors_addr">>
      /\ proc[p].result # None

\* rows cached for the lower-cased, trimmed texts of an address pair
Entry(origin_addr, dest_addr) ==
    {r \in distances_cache : r.origin = lower(strip(origin_addr)) /\ r.dest = lower(strip(dest_addr))}

\* C2: a resolve called while the cache holds an entry for the normalised address
\* pair returns at once with exactly the cached value, having made no outbound
\* call and no attempt of the chain, and leaves the cache as it was.
C2_CacheHitNoNetwork ==
    [][\A p \in Procs :
         ( /\ Finished(p) /\ proc'[p] # proc[p]
           /\ proc'[p].origin_addr # <<>> /\ proc'[p].dest_addr # <<>>
           /\ Entry(proc'[p].origin_addr, proc'[p].dest_addr) # {} )
         => /\ proc'[p].pc = "done"
            /\ proc'[p].calls = <<>>
            /\ proc'[p].attempts = <<>>
            /\ proc'[p].result \in
                 {Some(r.distance_km) : r \in Entry(proc'[p].origin_addr, proc'[p].dest_addr)}
            /\ distances_cache' = distances_cache]_vars

\* a cache hit for a free-text origin, with the premium provider configured
C2_Witness ==
    \E p \in Procs :
      /\ proc[p].hit /\ proc[p].pc = "done" /\ proc[p].calls = <<>>
      /\ ORS_API_KEY
      /\ ~proc[p].form.pickup_from_office
      /\ proc[p].result # None

C4_GreatCircleAlwaysSupplies ==
    \A p \in Procs :
      (Missed(p) /\ BothCoords(p) /\ proc[p].pc \in {"done", "raised"})
      => (proc[p].pc = "done" /\ proc[p].result # None)

PastCoords(p) == Missed(p) /\ proc[p].pc \notin {"idle", "coords"}

\* coordinates stored with an office that supplied an address
StoredPoint(office_id) ==
    LET o == offices[office_id[1]]
    IN  IF o.lat = None \/ o.lon = None THEN None ELSE <<o.lat[1], o.lon[1]>>

\* C5 as stated: after the coordinate step of a cache miss, an office endpoint
\* with stored coordinates has exactly those and cost no call, and every other
\* endpoint, an office without stored coordinates included, was geocoded by its
\* address text and has an answer of the geocoder.
C5_GeocodeUnlessStored ==
    \A p \in Procs :
      PastCoords(p) =>
        LET f == proc[p].form
            o_stored == f.pickup_from_office /\ StoredPoint(f.origin_office_id) # None
            d_stored == f.to_office /\ StoredPoint(f.destination_office_id) # None
            step == (IF o_stored THEN <<>> ELSE <<GeocodeCall(proc[p].origin_addr)>>)
                    \o (IF d_stored THEN <<>> ELSE <<GeocodeCall(proc[p].dest_addr)>>)
        IN  /\ Len(proc[p].calls) >= Len(step)
            /\ SubSeq(proc[p].calls, 1, Len(step)) = step
            /\ proc[p].o_ll \in (IF o_stored THEN {StoredPoint(f.origin_office_id)}
                                 ELSE GeocoderAnswers(proc[p].origin_addr))
            /\ proc[p].d_ll \in (IF d_stored THEN {StoredPoint(f.destination_office_id)}
                                 ELSE GeocoderAnswers(proc[p].dest_addr))

\* C5 amended: after the coordinate step of a cache miss, an office endpoint has
\* the coordinates stored with the office, or none when the office has none
\* stored, and cost no call; a free-address endpoint was geocoded by its address
\* text and has an answer of the geocoder.  These are the only calls of the step:
\* the formatted address of an office without coordinates is not geocoded here.
C5_StoredOrGeocodedFreeText ==
    \A p \in Procs :
      PastCoords(p) =>
        LET f == proc[p].form
            step == (IF f.pickup_from_office THEN <<>> ELSE <<GeocodeCall(f.pickup_address)>>)
                    \o (IF f.to_office THEN <<>> ELSE <<GeocodeCall(f.delivery_address)>>)
        IN  /\ Len(proc[p].calls) >= Len(step)
            /\ SubSeq(proc[p].calls, 1, Len(step)) = step
            /\ proc[p].attempts = <<>> => proc[p].calls = step
            /\ proc[p].o_ll \in (IF f.pickup_from_office THEN {StoredPoint(f.origin_office_id)}
                                 ELSE GeocoderAnswers(f.pickup_address))
            /\ proc[p].d_ll \in (IF f.to_office THEN {StoredPoint(f.destination_office_id)}
                                 ELSE GeocoderAnswers(f.delivery_address))

\* an office without stored coordinates as origin and a geocoded free address as
\* destination, right after the coordinate step
C5_Witness ==
    \E p \in Procs :
      /\ PastCoords(p) /\ proc[p].attempts = <<>>
      /\ proc[p].form.pickup_from_office /\ proc[p].o_ll = None
      /\ ~proc[p].form.to_office /\ proc[p].d_ll # None
      /\ proc[p].calls = <<GeocodeCall(proc[p].form.delivery_address)>>

\* C6: no failure of the geocoder or of a provider aborts a resolve: a resolve
\* never ends in an error, what it returns is a number or absent, and with no
\* coordinates for either endpoint and no geocoder match for either address it
\* returns absent.
C6_NeverAnError ==
    \A p \in Procs :
      /\ proc[p].pc # "raised"
      /\ proc[p].pc = "done" => (proc[p].result = None \/ proc[p].result[1] \in Nat)
      /\ ( /\ proc[p].pc = "done" /\ Missed(p)
           /\ proc[p].o_ll = None /\ proc[p].d_ll = None
           /\ GeocoderAnswers(proc[p].origin_addr) = {None}
           /\ GeocoderAnswers(proc[p].dest_addr) = {None} )
         => proc[p].result = None

\* C7: after a resolve that missed the cache, obtained a distance from any tier
\* and wrote it successfully, the only row of the cache for the lower-cased,
\* trimmed address pair holds exactly the value returned to the caller.
C7_CacheHoldsReturnedValue ==
    \A p \in Procs :
      (proc[p].pc = "done" /\ Missed(p) /\ proc[p].wrote) =>
        /\ proc[p].result # None
        /\ Entry(proc[p].origin_addr, proc[p].dest_addr) =
             {[origin |-> lower(strip(proc[p].origin_addr)),
               dest |-> lower(strip(proc[p].dest_addr)),
               distance_km |-> proc[p].result[1]]}

\* a great-circle distance returned and cached
C7_Witness ==
    \E p \in Procs :
      /\ proc[p].pc = "done" /\ Missed(p) /\ proc[p].wrote
      /\ Len(proc[p].attempts) = 5
      /\ proc[p].attempts[5].tier = "haversine"
      /\ \E r \in distances_cache : r.distance_km = proc[p].result[1]

\* C8: a resolve whose cache write fails still returns the distance it obtained
\* and raises no error, and the failed write leaves the cache unchanged; the
\* cache changes only in a successful write.
C8_FailedWriteIsIgnored ==
    [][ /\ \A p \in Procs :
             (proc[p].pc = "store" /\ proc'[p].pc # "store" /\ ~proc'[p].wrote) =>
                /\ proc'[p].pc = "done"
                /\ proc[p].dist # None
                /\ proc'[p].result = proc[p].dist
                /\ distances_cache' = distances_cache
        /\ distances_cache' # distances_cache =>
             \E p \in Procs : proc[p].pc = "store" /\ proc'[p].pc = "done" /\ proc'[p].wrote ]_vars

\* a resolve that returned a provider's distance although its cache write failed
C8_Witness ==
    \E p \in Procs :
      /\ proc[p].pc = "done" /\ Missed(p) /\ ~proc[p].wrote
      /\ proc[p].result # None
      /\ Entry(proc[p].origin_addr, proc[p].dest_addr) = {}

\* two characters that are the same letter in either case
SameLetter(c, d) ==
    c = d \/ \E i \in 1..Len(Uppers) : {c, d} = {Uppers[i], Lowers[i]}

LeadingBlanks(s)  == Cardinality({k \in 1..Len(s) : \A j \in 1..k : s[j] \in Whitespace})
TrailingBlanks(s) == Cardinality({k \in 1..Len(s) : \A j \in k..Len(s) : s[j] \in Whitespace})

\* two texts that differ only in letter case or in leading/trailing whitespace
Alike(s, t) ==
    LET ls == LeadingBlanks(s)
        lt == LeadingBlanks(t)
        ns == IF ls = Len(s) THEN 0 ELSE Len(s) - ls - TrailingBlanks(s)
        nt == IF lt = Len(t) THEN 0 ELSE Len(t) - lt - TrailingBlanks(t)
    IN  ns = nt /\ \A k \in 1..ns : SameLetter(s[ls + k], t[lt + k])

Derived(p) == proc[p].origin_addr # <<>> /\ proc[p].dest_addr # <<>>

\* C9: address texts that differ only in letter case or in leading/trailing
\* whitespace use one cache slot, whether typed or taken from an office: two
\* resolves of such texts use equal keys, a resolve that wrote left a row and a
\* resolve that hit found a row whose keys are such variants of its own texts,
\* and the cache never holds two rows whose keys are such variants of each other.
C9_OneSlotPerNormalizedText ==
    /\ \A p, q \in Procs :
         ( /\ Derived(p) /\ Derived(q)
           /\ Alike(proc[p].origin_addr, proc[q].origin_addr)
           /\ Alike(proc[p].dest_addr, proc[q].dest_addr) )
         => (proc[p].key_o = proc[q].key_o /\ proc[p].key_d = proc[q].key_d)
    /\ \A p \in Procs :
         (proc[p].pc = "done" /\ (proc[p].wrote \/ proc[p].hit)) =>
           \E r \in distances_cache :
             /\ Alike(r.origin, proc[p].origin_addr) /\ r.origin = proc[p].key_o
             /\ Alike(r.dest, proc[p].dest_addr) /\ r.dest = proc[p].key_d
    /\ \A r1, r2 \in distances_cache :
         (Alike(r1.origin, r2.origin) /\ Alike(r1.dest, r2.dest)) => r1 = r2

\* an office endpoint and a typed address in other case and spacing: the typed
\* resolve was served from the row the office resolve wrote
C9_Witness ==
    \E p, q \in Procs :
      /\ proc[q].pc = "done" /\ proc[q].wrote /\ proc[q].form.pickup_from_office
      /\ proc[p].pc = "done" /\ proc[p].hit /\ ~proc[p].form.pickup_from_office
      /\ proc[p].origin_addr # proc[q].origin_addr
      /\ proc[p].dest_addr # proc[q].dest_addr
      /\ Cardinality(distances_cache) = 1

OneRowPerKey(rows) ==
    \A r1, r2 \in rows : (r1.origin = r2.origin /\ r1.dest = r2.dest) => r1 = r2

\* C10: the cache never holds two rows for one key pair, also with resolves
\* running concurrently; a write for a key pair that has a row replaces that
\* row's value and touches no other row, and writing the same key pair and
\* value a second time changes nothing.
C10_UniqueKeyLastWriteWins ==
    /\ OneRowPerKey(distances_cache)
    /\ \A p \in Procs :
         proc[p].pc = "store" =>
           LET st    == proc[p]
               once  == InsertOrReplace(distances_cache, st.key_o, st.key_d, st.dist[1])
               twice == InsertOrReplace(once, st.key_o, st.key_d, st.dist[1])
           IN  /\ OneRowPerKey(once)
               /\ CacheSelect(once, st.key_o, st.key_d) =
                    {[origin |-> st.key_o, dest |-> st.key_d, distance_km |-> st.dist[1]]}
               /\ once \ CacheSelect(once, st.key_o, st.key_d) =
                    distances_cache \ CacheSelect(distances_cache, st.key_o, st.key_d)
               /\ twice = once

\* a resolve about to write while a concurrent resolve of the same pair has
\* already cached another value
C10_Witness ==
    \E p, q \in Procs :
      /\ p # q
      /\ proc[q].pc = "done" /\ proc[q].wrote
      /\ proc[p].pc = "store"
      /\ \E r \in CacheSelect(distances_cache, proc[p].key_o, proc[p].key_d) :
           r.distance_km = proc[q].result[1] /\ r.distance_km # proc[p].dist[1]

(***************************************************************************)
(* Outbound calls of a resolve, and two resolves of one pair in parallel.  *)
(***************************************************************************)
GeocoderCalls(p) == SelectSeq(proc[p].calls, LAMBDA c : c.svc = "nominatim")

ProviderCalls(p) == SelectSeq(proc[p].calls, LAMBDA c : c.svc \in {"ors", "osrm"})

\* free-address endpoints of the form of resolve p (the coordinate step geocodes these)
FreeEndpoints(p) ==
    (IF proc[p].form.pickup_from_office THEN 0 ELSE 1) + (IF proc[p].form.to_office THEN 0 ELSE 1)

\* C11 (as stated): a single resolve performs at most four outbound network
\* calls, whatever the endpoint kinds, the credential and the failures.
C11_AtMostFourCalls ==
    \A p \in Procs : Len(proc[p].calls) <= 4

\* C11 (amended): a resolve performs at most ten outbound calls: one geocoder
\* call per free-address endpoint at the coordinate step, at most two
\* coordinate-tier provider calls, and per address-tier attempt two further
\* geocoder calls and one provider call; the premium attempts call out only with
\* the credential configured, so without it the total is at most six; a cache
\* hit and a resolve with a missing address perform none.
C11_AtMostTenCalls ==
    \A p \in Procs :
      /\ Len(proc[p].calls) <= 10
      /\ Len(GeocoderCalls(p)) <= 6
      /\ Len(ProviderCalls(p)) <= 4
      /\ ~ORS_API_KEY => ( /\ Len(proc[p].calls) <= 6
                           /\ \A i \in 1..Len(proc[p].calls) : proc[p].calls[i].svc # "ors" )
      /\ (proc[p].pc # "idle" /\ ~Missed(p)) => proc[p].calls = <<>>
      /\ (proc[p].pc # "idle" /\ Missed(p)) =>
           Len(GeocoderCalls(p)) <= FreeEndpoints(p) + 2 * Len(SelectSeq(proc[p].attempts,
                                      LAMBDA a : a.tier \in {"ors_addr", "osrm_addr"}))

\* two free addresses, both geocoded, every provider failing in both tiers: ten calls
C11_Witness ==
    \E p \in Procs :
      /\ proc[p].pc \in {"done", "raised"}
      /\ Len(proc[p].calls) = 10
      /\ Len(GeocoderCalls(p)) = 6

BothMissedSamePair ==
    /\ proc[1].pc = "done" /\ proc[2].pc = "done"
    /\ Missed(1) /\ Missed(2)
    /\ proc[1].key_o = proc[2].key_o /\ proc[1].key_d = proc[2].key_d
    /\ proc[1].result # None /\ proc[2].result # None

\* C12 (as stated): after two concurrent resolves of one normalized pair that
\* both missed, the cache holds one entry for the pair and its value is the value
\* each of the two returned.
C12_BothReturnTheCachedValue ==
    BothMissedSamePair =>
      \E r \in distances_cache :
        /\ CacheSelect(distances_cache, proc[1].key_o, proc[1].key_d) = {r}
        /\ r.distance_km = proc[1].result[1]
        /\ r.distance_km = proc[2].result[1]

\* C12 (amended): after two concurrent resolves of one normalized pair that both
\* missed and returned a distance, the cache holds at most one entry for the
\* pair; it holds one exactly when the write of one of them succeeded, and its
\* value is then the value returned by the resolve whose write came last (the two
\* may have returned different values).
C12_CacheHoldsLastWritersValue ==
    BothMissedSamePair =>
      LET rows == CacheSelect(distances_cache, proc[1].key_o, proc[1].key_d) IN
      /\ Cardinality(rows) <= 1
      /\ (rows # {}) = (proc[1].wrote \/ proc[2].wrote)
      /\ \A r \in rows :
           /\ ValuesFor(last_stored, proc[1].key_o, proc[1].key_d) = {r.distance_km}
           /\ \E p \in Procs : proc[p].wrote /\ proc[p].result[1] = r.distance_km

\* both wrote, with different values: one row, holding one of the two values
C12_Witness ==
    /\ BothMissedSamePair
    /\ proc[1].wrote /\ proc[2].wrote
    /\ proc[1].result # proc[2].result
    /\ Cardinality(CacheSelect(distances_cache, proc[1].key_o, proc[1].key_d)) = 1


(***************************************************************************)
(* The geocode proxy /api/geocode (src/app/blueprints/api.py, lines 14-36) *)
(* and its throttle GEO_THROTTLE.  Time is time.time() in ticks of half a  *)
(* second.  Two requests can be in flight at once.                         *)
(***************************************************************************)
TicksPerSecond == 2

\* now - last < 1.0
Window == TicksPerSecond

\* time.time() when the first request can arrive
StartTime == 4

\* ticks the clock advances in a run
MaxTicks == 2

\* values of X-Forwarded-For / remote_addr
Clients == {"a", "b"}

\* values of the query parameter q
Queries == {<<" ", "s", "o", " ">>, <<"s", "o", "f">>}

UpstreamFailures == {"transport_error", "timeout", "bad_status", "malformed_body"}

UpstreamOutcomes == {"results"} \cup UpstreamFailures

\* one timestamp for all clients: the latest recorded time of any client
ThrottleGet_Global(map, ip) ==
    IF map = {} THEN 0 ELSE (CHOOSE e \in map : \A f \in map : f[2] <= e[2])[2]

\* GEO_THROTTLE.get(ip, 0)
ThrottleGet(map, ip) ==
    IF \E e \in map : e[1] = ip THEN (CHOOSE e \in map : e[1] = ip)[2] ELSE 0

\* GEO_THROTTLE[ip] = now
ThrottlePut(map, ip, now) == {e \in map : e[1] # ip} \cup {<<ip, now>>}

\* the time of the latest request of ip that passed the throttle, if any
LastAdmitted(ip) ==
    IF \E e \in last_admitted : e[1] = ip
    THEN Some((CHOOSE e \in last_admitted : e[1] = ip)[2])
    ELSE None

\* an upstream failure is reported as 502, as /api/route does
GeocodeProxyAnswer_BadGateway(outcome) ==
    IF outcome = "results"
    THEN [status |-> 200, body |-> <<"candidate">>]
    ELSE [status |-> 502, body |-> <<>>]

\* lines 26-36: the answer for each outcome of the upstream call: requests.get
\* raising (transport error, timeout) and r.json() raising (malformed body) end
\* in the except branch, a non-OK status yields data = []
GeocodeProxyAnswer(outcome) ==
    CASE outcome = "results"         -> [status |-> 200, body |-> <<"candidate">>]
      [] outcome = "bad_status"      -> [status |-> 200, body |-> <<>>]
      [] outcome = "malformed_body"  -> [status |-> 200, body |-> <<>>]
      [] outcome = "transport_error" -> [status |-> 200, body |-> <<>>]
      [] outcome = "timeout"         -> [status |-> 200, body |-> <<>>]

\* lines 16-17: ip = request.headers.get(...); now = time.time()
Arrive(h, ip, q) ==
    /\ req[h].pc \in {"idle", "done"}
    /\ req' = [req EXCEPT ![h] = [IdleReq EXCEPT !.pc = "check", !.ip = ip, !.now = clock, !.q = q]]
    /\ UNCHANGED <<GEO_THROTTLE, clock, last_admitted, resolve_vars, sales_vars, auth_vars>>

\* a sliding window: a rejected request records its time as well
Check_SlidingWindow(h) ==
    /\ req[h].pc = "check"
    /\ LET st   == req[h]
           last == ThrottleGet(GEO_THROTTLE, st.ip)
       IN  IF st.now - last < Window
           THEN /\ req' = [req EXCEPT ![h].pc = "done",
                                      ![h].since = LastAdmitted(st.ip),
                                      ![h].status = 429, ![h].body = <<>>]
                /\ GEO_THROTTLE' = ThrottlePut(GEO_THROTTLE, st.ip, st.now)
                /\ UNCHANGED last_admitted
           ELSE /\ req' = [req EXCEPT ![h].pc = "update",
                                      ![h].since = LastAdmitted(st.ip),
                                      ![h].admitted = TRUE]
                /\ last_admitted' = ThrottlePut(last_admitted, st.ip, st.now)
                /\ UNCHANGED GEO_THROTTLE
    /\ UNCHANGED <<clock, resolve_vars, sales_vars, auth_vars>>

\* lines 18-20: last = GEO_THROTTLE.get(ip, 0); if now - last < 1.0: return [], 429
Check(h) ==
    /\ req[h].pc = "check"
    /\ LET st   == req[h]
           last == ThrottleGet(GEO_THROTTLE, st.ip)
       IN  IF st.now - last < Window
           THEN /\ req' = [req EXCEPT ![h].pc = "done",
                                      ![h].since = LastAdmitted(st.ip),
                                      ![h].status = 429, ![h].body = <<>>]
                /\ UNCHANGED last_admitted
           ELSE /\ req' = [req EXCEPT ![h].pc = "update",
                                      ![h].since = LastAdmitted(st.ip),
                                      ![h].admitted = TRUE]
                /\ last_admitted' = ThrottlePut(last_admitted, st.ip, st.now)
    /\ UNCHANGED <<GEO_THROTTLE, clock, resolve_vars, sales_vars, auth_vars>>

\* the query is validated first: a short query does not record its time
Update_AfterValidation(h) ==
    /\ req[h].pc = "update"
    /\ GEO_THROTTLE' = IF Len(strip(req[h].q)) < 3 THEN GEO_THROTTLE
                       ELSE ThrottlePut(GEO_THROTTLE, req[h].ip, req[h].now)
    /\ req' = [req EXCEPT ![h].pc = "query"]
    /\ UNCHANGED <<clock, last_admitted, resolve_vars, sales_vars, auth_vars>>

\* line 21: GEO_THROTTLE[ip] = now
Update(h) ==
    /\ req[h].pc = "update"
    /\ GEO_THROTTLE' = ThrottlePut(GEO_THROTTLE, req[h].ip, req[h].now)
    /\ req' = [req EXCEPT ![h].pc = "query"]
    /\ UNCHANGED <<clock, last_admitted, resolve_vars, sales_vars, auth_vars>>

\* lines 22-36: a query shorter than 3 characters after strip() is answered
\* with [] without a call; else Nominatim is called with q + ", Bulgaria"
Respond(h) ==
    /\ req[h].pc = "query"
    /\ LET q == strip(req[h].q)
       IN  IF Len(q) < 3
           THEN req' = [req EXCEPT ![h].pc = "done", ![h].status = 200, ![h].body = <<>>]
           ELSE \E outcome \in UpstreamOutcomes :
                  req' = [req EXCEPT ![h].pc = "done", ![h].outcome = outcome,
                                     ![h].upstream = <<GeocodeCall(q \o <<",", " ">> \o BulgariaSuffix)>>,
                                     ![h].status = GeocodeProxyAnswer(outcome).status,
                                     ![h].body = GeocodeProxyAnswer(outcome).body]
    /\ UNCHANGED <<GEO_THROTTLE, clock, last_admitted, resolve_vars, sales_vars, auth_vars>>

\* time passes
Tick ==
    /\ clock < StartTime + MaxTicks
    /\ clock' = clock + 1
    /\ UNCHANGED <<GEO_THROTTLE, req, last_admitted, resolve_vars, sales_vars, auth_vars>>

NextThrottle ==
    \/ \E h \in Handlers, ip \in Clients, q \in Queries : Arrive(h, ip, q)
    \/ \E h \in Handlers : Check(h) \/ Update(h) \/ Respond(h)
    \/ Tick

InitThrottle ==
    /\ distances_cache = {}
    /\ offices = OfficeTable
    /\ ORS_API_KEY = FALSE
    /\ proc = [p \in Procs |-> Idle]
    /\ returned = {}
    /\ last_stored = {}
    /\ nresolves = 0
    /\ clock = StartTime
    /\ InitWeb

SpecThrottle == InitThrottle /\ [][NextThrottle]_vars

Decided(h) == req[h].pc \in {"update", "query", "done"}

\* C13: the throttle rejects a request exactly when less than 1 second has
\* elapsed since the last admitted request of the same client, and otherwise
\* admits it and records its time; of two requests of one client within 1 second
\* the second is rejected.
C13_RejectsExactlyWithinWindow ==
    \A h \in Handlers :
      /\ Decided(h) =>
           (~req[h].admitted) = (req[h].since # None /\ req[h].now - req[h].since[1] < Window)
      /\ (req[h].pc \in {"query", "done"} /\ req[h].admitted) =>
           \E e \in GEO_THROTTLE : e[1] = req[h].ip

\* C14: of two requests of one client whose times are less than 1 second apart,
\* handled concurrently, never both are admitted.
C14_NeverBothAdmitted ==
    \A h1, h2 \in Handlers :
      ( /\ h1 # h2
        /\ Decided(h1) /\ Decided(h2)
        /\ req[h1].ip = req[h2].ip
        /\ req[h1].now - req[h2].now < Window
        /\ req[h2].now - req[h1].now < Window )
      => ~(req[h1].admitted /\ req[h2].admitted)

\* C20: a throttled request is answered 429 with no upstream call; an admitted
\* request is answered 200, and when its upstream call failed in any way (or was
\* not made for a short query) the body is the empty list.
C20_ThrottledOrEmptyOnFailure ==
    \A h \in Handlers :
      req[h].pc = "done" =>
        /\ req[h].status \in {200, 429}
        /\ (req[h].status = 429) = ~req[h].admitted
        /\ ~req[h].admitted => (req[h].upstream = <<>> /\ req[h].body = <<>>)
        /\ (req[h].admitted /\ req[h].outcome \in UpstreamFailures) =>
             (req[h].status = 200 /\ req[h].body = <<>> /\ Len(req[h].upstream) = 1)
        /\ (req[h].admitted /\ req[h].outcome = "results") => req[h].status = 200

\* one request answered 429, another admitted whose upstream call timed out
C20_Witness ==
    \E h1, h2 \in Handlers :
      /\ req[h1].pc = "done" /\ req[h1].status = 429
      /\ req[h2].pc = "done" /\ req[h2].admitted /\ req[h2].outcome = "malformed_body"
      /\ req[h2].body = <<>>


(***************************************************************************)
(* Pricing (src/app/services/pricing.py) and the company settings form     *)
(* (src/app/blueprints/company.py).  Coefficients are in tenths, weights in *)
(* hundredths of a kilogram, distances in hundredths of a kilometre and    *)
(* prices in hundredths (two decimals).                                    *)
(***************************************************************************)
\* round(x, 2) of x = n / 100000; an exact tie goes to the even neighbour
Round2(n) ==
    LET q == n \div 1000
        r == n % 1000
    IN  IF r > 500 \/ (r = 500 /\ q % 2 = 1) THEN q + 1 ELSE q

\* a negative weight or distance is used as it is
Clamp_None(x) == x

\* max(float(x), 0.0)
Clamp(x) == IF x > 0 THEN x ELSE 0

\* the size is compared as it was passed
NormalSize_NoUpper(size) == IF size = <<>> THEN <<"M">> ELSE size

\* line 37: size = (size or 'M').upper()
NormalSize(size) == upper(IF size = <<>> THEN <<"M">> ELSE size)

\* the coefficients are those read when the application started
CompanyRow_Cached == DefaultCompany

\* lines 17-25: SELECT ... FROM company WHERE id=1
CompanyRow == company

\* lines 27-43 of compute_price, for the coefficient row c it has read
compute_price(c, weight_kg, to_office, distance_km, size) ==
    LET base == c.base_price_per_kg * Clamp(weight_kg)
        dist == c.per_km_rate * Clamp(IF distance_km = None THEN 0 ELSE distance_km[1])
        mult_delivery == IF to_office THEN c.office_delivery_multiplier
                                      ELSE c.address_delivery_multiplier
        sz == NormalSize(size)
        mult_size == IF sz = <<"L">> THEN c.size_multiplier_l
                     ELSE IF sz = <<"S">> THEN c.size_multiplier_s
                     ELSE c.size_multiplier_m
    IN  Round2((base + dist) * mult_delivery * mult_size)

\* float(request.form.get(name, default) or default): a missing or empty field
\* (None) gives the default, any other text its value
FormFloat(field, default) == IF field = None THEN default ELSE field[1]

\* POST bodies of the settings form: left empty, new prices, a negative price
\* per kg, a negative delivery multiplier
CompanyForms ==
    { [base_price_per_kg |-> None, per_km_rate |-> None,
       office_delivery_multiplier |-> None, address_delivery_multiplier |-> None,
       size_multiplier_s |-> None, size_multiplier_m |-> None, size_multiplier_l |-> None],
      [base_price_per_kg |-> Some(30), per_km_rate |-> Some(6),
       office_delivery_multiplier |-> Some(20), address_delivery_multiplier |-> Some(10),
       size_multiplier_s |-> Some(10), size_multiplier_m |-> Some(20), size_multiplier_l |-> Some(30)],
      [base_price_per_kg |-> Some(-10), per_km_rate |-> Some(4),
       office_delivery_multiplier |-> None, address_delivery_multiplier |-> None,
       size_multiplier_s |-> None, size_multiplier_m |-> None, size_multiplier_l |-> None],
      [base_price_per_kg |-> None, per_km_rate |-> None,
       office_delivery_multiplier |-> Some(-10), address_delivery_multiplier |-> None,
       size_multiplier_s |-> None, size_multiplier_m |-> None, size_multiplier_l |-> None] }

\* arguments of the compute_price calls
Weights == {-100, 0, 200, 300}

Distances == {None, Some(-500), Some(1000), Some(2000)}

Sizes == {None, <<"S">>, <<"M">>, <<"L">>, <<"s">>, <<"X", "L">>}

\* lines 47-56: the values of the form fields, each with its default
CompanyFromForm(form) ==
    [base_price_per_kg           |-> FormFloat(form.base_price_per_kg, 25),
     per_km_rate                 |-> FormFloat(form.per_km_rate, 4),
     office_delivery_multiplier  |-> FormFloat(form.office_delivery_multiplier, 10),
     address_delivery_multiplier |-> FormFloat(form.address_delivery_multiplier, 14),
     size_multiplier_s           |-> FormFloat(form.size_multiplier_s, 9),
     size_multiplier_m           |-> FormFloat(form.size_multiplier_m, 10),
     size_multiplier_l           |-> FormFloat(form.size_multiplier_l, 12)]

\* company_form, POST (lines 42-93): the row id=1 exists, so it is updated
company_form(form) ==
    /\ company' = CompanyFromForm(form)
    /\ UNCHANGED <<quote, shipments, responses, GEO_THROTTLE, clock, req, last_admitted, resolve_vars, auth_vars>>

\* one call compute_price(weight_kg, to_office, distance_km, size)
PriceCall(weight_kg, to_office, distance_km, size) ==
    /\ quote' = [weight_kg |-> weight_kg, to_office |-> to_office,
                 distance_km |-> distance_km, size |-> size,
                 c |-> Some(CompanyRow),
                 price |-> Some(compute_price(CompanyRow, weight_kg, to_office, distance_km, size))]
    /\ UNCHANGED <<company, shipments, responses, GEO_THROTTLE, clock, req, last_admitted, resolve_vars, auth_vars>>

NextPrice ==
    \/ \E form \in CompanyForms : company_form(form)
    \/ \E w \in Weights, t \in BOOLEAN, d \in Distances, s \in Sizes : PriceCall(w, t, d, s)

SpecPrice == InitThrottle /\ [][NextPrice]_vars

Max(a, b) == IF a >= b THEN a ELSE b

Quoted == quote.c # None

\* the price of the latest call with another weight, distance or size
Requote(weight_kg, distance_km, size) ==
    compute_price(quote.c[1], weight_kg, quote.to_office, distance_km, size)

\* C15: the price is (base_price_per_kg * max(weight_kg, 0) + per_km_rate *
\* max(distance_km, 0)) * delivery_multiplier * size_multiplier rounded to two
\* decimals, with the office coefficient when to_office and the address
\* coefficient otherwise; negative weight or distance counts as zero; with the
\* default coefficients compute_price(2.0, True, 10.0, 'M') is 9.00.
C15_PriceFormula ==
    /\ (Quoted /\ quote.size \in {<<"S">>, <<"M">>, <<"L">>}) =>
         LET c  == quote.c[1]
             w  == Max(quote.weight_kg, 0)
             d  == IF quote.distance_km = None THEN 0 ELSE Max(quote.distance_km[1], 0)
             dm == IF quote.to_office THEN c.office_delivery_multiplier
                                      ELSE c.address_delivery_multiplier
             sm == CASE quote.size = <<"S">> -> c.size_multiplier_s
                     [] quote.size = <<"M">> -> c.size_multiplier_m
                     [] quote.size = <<"L">> -> c.size_multiplier_l
         IN  quote.price = Some(Round2((c.base_price_per_kg * w + c.per_km_rate * d) * dm * sm))
    /\ compute_price(DefaultCompany, 200, TRUE, Some(1000), <<"M">>) = 900

\* a call with a negative weight and a positive distance: only the distance is charged
C15_Witness ==
    /\ Quoted /\ quote.size = <<"L">> /\ ~quote.to_office
    /\ quote.weight_kg < 0 /\ quote.distance_km = Some(1000)
    /\ quote.c = Some(DefaultCompany)
    /\ quote.price = Some(672)

\* C16: for the coefficients the settings form has stored, the price does not
\* decrease when the weight grows or when the distance grows, the other
\* arguments held fixed.
C16_MonotoneInWeightAndDistance ==
    Quoted =>
      /\ \A w \in Weights :
           w >= quote.weight_kg =>
             compute_price(company, w, quote.to_office, quote.distance_km, quote.size)
               >= compute_price(company, quote.weight_kg, quote.to_office, quote.distance_km, quote.size)
      /\ \A d \in Distances :
           (d # None /\ quote.distance_km # None /\ d[1] >= quote.distance_km[1]) =>
             compute_price(company, quote.weight_kg, quote.to_office, d, quote.size)
               >= compute_price(company, quote.weight_kg, quote.to_office, quote.distance_km, quote.size)

\* C17 (as stated): a size that is not one of 'S', 'M', 'L' (or is missing) gives
\* the price of size 'M'.
C17_OtherSizeIsM ==
    (Quoted /\ quote.size \notin {<<"S">>, <<"M">>, <<"L">>}) =>
      quote.price = Some(Requote(quote.weight_kg, quote.distance_km, <<"M">>))

\* C17 (amended): the size is compared without regard to letter case: 's' gives
\* the price of 'S' and 'l' the price of 'L'; a missing size and every size
\* that is none of S, M, L in either case gives the price of 'M'.
C17_SizeIgnoresCase ==
    Quoted =>
      /\ lower(quote.size) = <<"s">> =>
           quote.price = Some(Requote(quote.weight_kg, quote.distance_km, <<"S">>))
      /\ lower(quote.size) = <<"l">> =>
           quote.price = Some(Requote(quote.weight_kg, quote.distance_km, <<"L">>))
      /\ lower(quote.size) \notin {<<"s">>, <<"l">>} =>
           quote.price = Some(Requote(quote.weight_kg, quote.distance_km, <<"M">>))

\* a call with size 's' priced with the S coefficient, which differs from the M price
C17_Witness ==
    /\ Quoted /\ quote.size = <<"s">>
    /\ quote.price = Some(Requote(quote.weight_kg, quote.distance_km, <<"S">>))
    /\ quote.price # Some(Requote(quote.weight_kg, quote.distance_km, <<"M">>))

\* C18: every compute_price call reads the coefficients of the company row as
\* it is at the time of the call: after any sequence of updates through the
\* settings form, the call uses exactly the stored coefficients.
C18_ReadsCoefficientsAfresh ==
    [][ (quote' # quote) =>
          /\ quote'.c = Some(company)
          /\ quote'.price = Some(compute_price(company, quote'.weight_kg, quote'.to_office,
                                               quote'.distance_km, quote'.size)) ]_vars

\* a call made after the form changed the coefficients, priced with the new ones
C18_Witness ==
    /\ Quoted
    /\ quote.c = Some(company)
    /\ company # DefaultCompany
    /\ quote.price # Some(compute_price(DefaultCompany, quote.weight_kg, quote.to_office,
                                        quote.distance_km, quote.size))


(***************************************************************************)
(* Shipment creation (src/app/blueprints/shipments.py, shipments_new,      *)
(* POST): the distance is resolved from the form, a manual distance is    *)
(* the fallback, the price is computed and the row is inserted.  The       *)
(* requests are made by a logged-in employee, one at a time.               *)
(***************************************************************************)
\* shipments_new requests in a run
MaxShipments == 2

\* the address part of the forms posted
ShipForms == ConcForms

\* values of the form field distance_km: left empty, 5.0
ManualDistances == {None, Some(500)}

\* values of the form field weight_kg
ShipWeights == {200}

\* line 103: auto_distance = compute_distance_from_form(request.form), entered
\* once the previous request has been answered
ShipBegin(form) ==
    /\ Len(responses) = nresolves
    /\ Begin(1, form, MaxShipments)

\* lines 104-165 after the resolve has returned: the fallback distance, the
\* distance used, the price, the INSERT and the redirect
Register(manual, weight) ==
    /\ proc[1].pc = "done"
    /\ Len(responses) < nresolves
    /\ LET auto_distance     == proc[1].result
           fallback_distance == IF manual = None THEN 100 ELSE manual[1]
           distance_km       == IF auto_distance # None THEN auto_distance[1] ELSE fallback_distance
           to_office         == proc[1].form.to_office
           price             == compute_price(CompanyRow, weight, to_office, Some(distance_km), <<"M">>)
       IN  /\ shipments' = Append(shipments, [weight_kg |-> weight, distance_km |-> distance_km,
                                               to_office |-> to_office, size |-> <<"M">>,
                                               price |-> price, status |-> "registered",
                                               delivered_at |-> None,
                                               id |-> 1 + Cardinality({i \in 1..Len(responses) :
                                                                         responses[i].registered})])
           /\ responses' = Append(responses, [status |-> 302, auto_distance |-> auto_distance,
                                               manual |-> manual, registered |-> TRUE])
    /\ UNCHANGED <<company, quote, GEO_THROTTLE, clock, req, last_admitted, resolve_vars, auth_vars>>

\* the resolve left with an exception: the request ends in the 500 handler
\* and nothing is inserted
Abort ==
    /\ proc[1].pc = "raised"
    /\ Len(responses) < nresolves
    /\ responses' = Append(responses, [status |-> 500, auto_distance |-> None,
                                       manual |-> None, registered |-> FALSE])
    /\ UNCHANGED <<shipments, company, quote, GEO_THROTTLE, clock, req, last_admitted, resolve_vars, auth_vars>>

NextShip ==
    \/ \E form \in ShipForms : ShipBegin(form)
    \/ Step(1)
    \/ \E manual \in ManualDistances, weight \in ShipWeights : Register(manual, weight)
    \/ Abort

SpecShip == Init /\ [][NextShip]_vars

\* C19: a shipments_new request whose resolve returned absent is registered
\* with the manual distance (1.0 when none was supplied), one whose resolve
\* returned a value is registered with that value, each priced with the distance
\* used; no request fails to be registered, whatever tiers failed.
C19_ManualFallbackNeverInterrupted ==
    /\ \A i \in 1..Len(responses) : responses[i].registered
    /\ Len(shipments) = Cardinality({i \in 1..Len(responses) : responses[i].registered})
    /\ \A i \in 1..Len(shipments) :
         LET n == CHOOSE k \in 1..Len(responses) :
                    Cardinality({j \in 1..k : responses[j].registered}) = i /\ responses[k].registered
             r == responses[n]
             row == shipments[i]
         IN  /\ r.auto_distance # None => row.distance_km = r.auto_distance[1]
             /\ (r.auto_distance = None /\ r.manual # None) => row.distance_km = r.manual[1]
             /\ (r.auto_distance = None /\ r.manual = None) => row.distance_km = 100
             /\ row.price = compute_price(company, row.weight_kg, row.to_office,
                                           Some(row.distance_km), row.size)


(***************************************************************************)
(* Resolves of one address pair in both directions, and of a delivery      *)
(* address that consists of whitespace only.                               *)
(***************************************************************************)
\* resolves started in a run of SpecPairs
MaxPairResolves == 2

PairForms ==
    { Form(Endpoint(FALSE, None, OfficeOneTyped), Endpoint(FALSE, None, <<" ", "Y">>)),
      Form(Endpoint(FALSE, None, <<"y">>), Endpoint(FALSE, None, lower(OfficeOneTyped))),
      Form(Endpoint(FALSE, None, <<"y">>), Endpoint(FALSE, None, <<" ", "\t">>)) }

NextPairs ==
    \/ \E form \in PairForms : Begin(1, form, MaxPairResolves)
    \/ Step(1)

SpecPairs == Init /\ [][NextPairs]_vars

\* C21: geocode_address makes no network call for an input that is missing,
\* empty or whitespace only (and returns absent): no geocoder call is ever made
\* with a query that is empty after trimming.
C21_NoCallForBlankInput ==
    /\ \A r \in geocode_address(<<>>) : r.ll = None /\ r.calls = <<>>
    /\ \A p \in Procs :
         \A i \in 1..Len(proc[p].calls) :
           proc[p].calls[i].svc = "nominatim" => strip(proc[p].calls[i].q) # <<>>

\* C25: without the premium credential a resolve makes no call for the premium
\* provider in either tier: its attempts yield nothing, no call goes to it, and
\* the premium-by-address attempt geocodes nothing, so the geocoder calls are
\* those of the coordinate step and two per demo-by-address attempt; the attempt
\* after a premium one is the demo one of the same tier.
C25_NoCredentialNoPremiumCall ==
    ~ORS_API_KEY =>
      \A p \in Procs :
        LET a == proc[p].attempts IN
        /\ \A i \in 1..Len(proc[p].calls) : proc[p].calls[i].svc # "ors"
        /\ \A i \in 1..Len(a) : a[i].tier \in {"ors_coords", "ors_addr"} => a[i].dist = None
        /\ \A i \in 1..(Len(a) - 1) :
             /\ a[i].tier = "ors_coords" => a[i + 1].tier = "osrm_coords"
             /\ a[i].tier = "ors_addr" => a[i + 1].tier = "osrm_addr"
        /\ PastCoords(p) =>
             Len(GeocoderCalls(p)) =
               FreeEndpoints(p) + 2 * Len(SelectSeq(a, LAMBDA x : x.tier = "osrm_addr"))
        /\ proc[p].pc \in {"osrm_coords", "osrm_addr"} =>
             Len(ProviderCalls(p)) = Len(SelectSeq(a, LAMBDA x : x.tier = "osrm_coords"))

\* no credential, two free addresses, every demo call failing: the premium
\* attempts were made in both tiers and the six calls are all geocoder and demo calls
C25_Witness ==
    \E p \in Procs :
      /\ ~ORS_API_KEY
      /\ proc[p].pc \in {"done", "raised"}
      /\ \E i \in 1..Len(proc[p].attempts) : proc[p].attempts[i].tier = "ors_coords"
      /\ \E i \in 1..Len(proc[p].attempts) : proc[p].attempts[i].tier = "ors_addr"
      /\ Len(proc[p].calls) = 6 /\ Len(GeocoderCalls(p)) = 4

\* the address text of an endpoint as the form and the office table give it
EndpointText(on, office_id, address) ==
    IF ~on THEN address
    ELSE IF office_id # None /\ office_id[1] \in DOMAIN OfficeTable
         THEN OfficeTable[office_id[1]].address \o <<",", " ">>
              \o OfficeTable[office_id[1]].city \o BulgariaSuffix
         ELSE <<>>

\* C26: the address text of an endpoint is the office's formatted address when
\* the office flag is set (a free address typed as well is ignored) and the free
\* address otherwise; when either text is missing (office id missing or naming
\* no stored office, or free address empty) the resolve returns absent with no
\* cache lookup, no outbound call, no attempt and no cache write.
C26_UnderivableIsAbsent ==
    \A p \in Procs :
      proc[p].pc # "idle" =>
        LET f == proc[p].form IN
        /\ proc[p].origin_addr = EndpointText(f.pickup_from_office, f.origin_office_id, f.pickup_address)
        /\ proc[p].dest_addr = EndpointText(f.to_office, f.destination_office_id, f.delivery_address)
        /\ ~Derived(p) =>
             /\ proc[p].pc = "done" /\ proc[p].result = None
             /\ proc[p].calls = <<>> /\ proc[p].attempts = <<>>
             /\ ~proc[p].hit /\ ~proc[p].wrote
             /\ proc[p].key_o = None /\ proc[p].key_d = None

\* a destination office id that names no office, with a free address typed
\* next to it, while the cache holds a row
C26_Witness ==
    \E p \in Procs :
      /\ proc[p].pc = "done" /\ ~Derived(p)
      /\ proc[p].form.to_office
      /\ proc[p].form.destination_office_id = Some(9)
      /\ proc[p].form.delivery_address # <<>>
      /\ proc[p].result = None
      /\ distances_cache # {}

\* C27: a resolve that is served from the cache or returns absent leaves the
\* cache as it is; with resolves one at a time a row, once stored, is never
\* changed or removed.
C27_CachedValueNeverChanges ==
    [][ /\ distances_cache \subseteq distances_cache'
        /\ OneRowPerKey(distances_cache')
        /\ \A p \in Procs :
             ( /\ proc'[p] # proc[p] /\ proc'[p].pc = "done"
               /\ (proc'[p].hit \/ proc'[p].result = None) )
             => distances_cache' = distances_cache ]_vars

\* with the credential configured a resolve is served the demo provider's
\* value cached earlier, next to a row of another pair
C27_Witness ==
    \E p \in Procs :
      /\ ORS_API_KEY
      /\ proc[p].pc = "done" /\ proc[p].hit
      /\ proc[p].result = Some(RoundKm(150004))
      /\ Cardinality(distances_cache) = 1

\* C28: a resolve is served from the cache only by a row written for its own
\* ordered key pair: a hit returns the value last stored for (origin, dest) in
\* that order, so a row stored for the opposite direction does not answer it.
C28_DirectionSensitive ==
    \A p \in Procs :
      /\ proc[p].hit =>
           /\ proc[p].prior_stored # {}
           /\ proc[p].result # None /\ proc[p].prior_stored = {proc[p].result[1]}
      /\ (proc[p].pc # "idle" /\ Derived(p) /\ proc[p].prior_stored = {}) => ~proc[p].hit

\* the pair was resolved and cached in one direction; the resolve of the
\* opposite direction missed and walked the chain
C28_Witness ==
    \E p \in Procs :
      /\ proc[p].pc = "done" /\ Missed(p)
      /\ proc[p].key_o # proc[p].key_d
      /\ proc[p].attempts # <<>> /\ proc[p].calls # <<>>
      /\ CacheSelect(distances_cache, proc[p].key_d, proc[p].key_o) # {}
      /\ proc[p].prior_stored = {}


(***************************************************************************)
(* The throttle as a single slot per client.                               *)
(***************************************************************************)
\* the entry of GEO_THROTTLE for ip
Slot(map, ip) == {e \in map : e[1] = ip}

\* the step in which handler h takes its throttle decision (lines 18-20)
Decides(h) == req[h].pc = "check" /\ req'[h].pc # "check"

\* the step in which handler h writes its time (line 21)
Records(h) == req[h].pc = "update" /\ req'[h].pc = "query"

ShortQuery(h) == Len(strip(req[h].q)) < 3

\* C23: a request rejected by the throttle leaves the throttle state unchanged:
\* only an admitted request writes, and it writes its own time; a request is
\* admitted as soon as a full window lies between it and the recorded time, so
\* rejections never extend the window.
C23_RejectionLeavesThrottleUnchanged ==
    [][ /\ \A h \in Handlers :
             Decides(h) =>
               /\ req'[h].status = 429 =>
                    /\ GEO_THROTTLE' = GEO_THROTTLE
                    /\ last_admitted' = last_admitted
                    /\ req'[h].pc = "done" /\ ~req'[h].admitted
               /\ req[h].now - ThrottleGet(GEO_THROTTLE, req[h].ip) >= Window
                    => req'[h].admitted
        /\ GEO_THROTTLE' # GEO_THROTTLE =>
             \E h \in Handlers :
               /\ req[h].admitted /\ Records(h)
               /\ GEO_THROTTLE' = ThrottlePut(GEO_THROTTLE, req[h].ip, req[h].now) ]_vars

\* a client admitted at some time was rejected half a second later and is
\* admitted again a full second after its first admission
C23_Witness ==
    \E h1, h2 \in Handlers :
      /\ h1 # h2 /\ req[h1].ip = req[h2].ip
      /\ req[h2].pc = "done" /\ req[h2].status = 429
      /\ req[h2].since # None /\ req[h2].now = req[h2].since[1] + 1
      /\ req[h1].admitted /\ req[h1].pc = "query"
      /\ req[h1].since = req[h2].since
      /\ req[h1].now = req[h1].since[1] + Window
      /\ <<req[h1].ip, req[h1].now>> \in GEO_THROTTLE

\* C24: the throttle check and the timestamp update come before the query is
\* validated: an admitted request with a query shorter than 3 characters
\* records its time, is answered 200 with an empty list and makes no upstream
\* call, and a request of the same client that finds that time recorded within
\* the window is rejected with 429.
C24_ShortQueryConsumesSlot ==
    [][ /\ \A h \in Handlers :
             /\ (Records(h) /\ ShortQuery(h)) =>
                  <<req[h].ip, req[h].now>> \in GEO_THROTTLE'
             /\ req[h].pc \in {"check", "update"} =>
                  (req[h].status = 0 /\ req[h].upstream = <<>>)
             /\ (req'[h].pc = "done" /\ req'[h].admitted /\ ShortQuery(h)) =>
                  /\ req'[h].status = 200 /\ req'[h].body = <<>>
                  /\ req'[h].upstream = <<>>
                  /\ Slot(GEO_THROTTLE', req'[h].ip) # {}
        /\ \A h1, h2 \in Handlers :
             ( /\ h1 # h2 /\ req[h1].ip = req[h2].ip
               /\ req[h1].pc \in {"query", "done"} /\ req[h1].admitted /\ ShortQuery(h1)
               /\ <<req[h1].ip, req[h1].now>> \in GEO_THROTTLE
               /\ req[h2].now - req[h1].now < Window
               /\ Decides(h2) )
             => req'[h2].status = 429 ]_vars

\* a short query was answered 200 with an empty list and the next request of
\* the client, in the same half second, was answered 429
C24_Witness ==
    \E h1, h2 \in Handlers :
      /\ h1 # h2 /\ req[h1].ip = req[h2].ip
      /\ req[h1].pc = "done" /\ req[h1].admitted /\ ShortQuery(h1)
      /\ req[h1].status = 200 /\ req[h1].body = <<>> /\ req[h1].upstream = <<>>
      /\ req[h2].pc = "done" /\ req[h2].status = 429
      /\ req[h2].since = Some(req[h1].now)
      /\ req[h2].now = req[h1].now

\* C29: the throttle state is kept per client: the entry of a client changes
\* only when a request of that client records its time, the decision for a
\* request depends on the entry of its own client only, and the first request
\* of a client is admitted.
C29_PerClientThrottle ==
    [][ /\ \A ip \in Clients :
             Slot(GEO_THROTTLE', ip) # Slot(GEO_THROTTLE, ip) =>
               \E h \in Handlers : req[h].ip = ip /\ Records(h)
        /\ \A h \in Handlers :
             Decides(h) =>
               req'[h].admitted =
                 (\A e \in Slot(GEO_THROTTLE, req[h].ip) : req[h].now - e[2] >= Window)
        /\ \A h \in Handlers :
             (Decides(h) /\ req'[h].since = None) => req'[h].admitted ]_vars

\* the first request of one client is admitted in the half second in which
\* another client was admitted and recorded
C29_Witness ==
    \E h1, h2 \in Handlers :
      /\ req[h1].ip # req[h2].ip /\ req[h1].ip # "" /\ req[h2].ip # ""
      /\ req[h1].pc = "done" /\ req[h1].admitted
      /\ req[h2].pc = "done" /\ req[h2].admitted /\ req[h2].since = None
      /\ req[h1].now = req[h2].now
      /\ GEO_THROTTLE = {<<req[h1].ip, req[h1].now>>, <<req[h2].ip, req[h2].now>>}


(***************************************************************************)
(* The status of a shipment: shipments_mark_delivered and shipments_delete *)
(* (src/app/blueprints/shipments.py, lines 208-240) next to shipments_new. *)
(***************************************************************************)
\* the ids AUTOINCREMENT has handed out
ShipmentIds == 1..Cardinality({i \in 1..Len(responses) : responses[i].registered})

\* the status is set, delivered_at is left as it was
shipments_mark_delivered_StatusOnly(shipment_id) ==
    /\ shipments' = [i \in 1..Len(shipments) |->
                       IF shipments[i].id = shipment_id
                       THEN [shipments[i] EXCEPT !.status = "delivered"]
                       ELSE shipments[i]]
    /\ UNCHANGED <<responses, company, quote, GEO_THROTTLE, clock, req, last_admitted, resolve_vars, auth_vars>>

\* lines 214-218: UPDATE shipments SET status='delivered', delivered_at=now
\* WHERE id=?; an id without a row updates nothing
shipments_mark_delivered(shipment_id) ==
    /\ shipments' = [i \in 1..Len(shipments) |->
                       IF shipments[i].id = shipment_id
                       THEN [shipments[i] EXCEPT !.status = "delivered", !.delivered_at = Some(clock)]
                       ELSE shipments[i]]
    /\ UNCHANGED <<responses, company, quote, GEO_THROTTLE, clock, req, last_admitted, resolve_vars, auth_vars>>

\* lines 229-237: 404 when the row is missing, else DELETE FROM shipments WHERE id=?
shipments_delete(shipment_id) ==
    /\ shipments' = SelectSeq(shipments, LAMBDA row : row.id # shipment_id)
    /\ UNCHANGED <<responses, company, quote, GEO_THROTTLE, clock, req, last_admitted, resolve_vars, auth_vars>>

NextDeliver ==
    \/ \E form \in ShipForms : ShipBegin(form)
    \/ Step(1)
    \/ \E manual \in ManualDistances, weight \in ShipWeights : Register(manual, weight)
    \/ Abort
    \/ \E shipment_id \in ShipmentIds : shipments_mark_delivered(shipment_id)
    \/ \E shipment_id \in ShipmentIds : shipments_delete(shipment_id)

SpecDeliver == Init /\ [][NextDeliver]_vars

\* the stored rows
Rows(table) == {table[i] : i \in 1..Len(table)}

\* C30: every stored shipment is 'registered' with delivered_at unset or
\* 'delivered' with delivered_at set; a new row is 'registered'; the status of
\* a row changes only from 'registered' to 'delivered', in a step that changes
\* nothing but the status and delivered_at of stored rows; a delivered row stays
\* delivered until it is deleted.
C30_RegisteredThenDelivered ==
    [][ /\ \A row \in Rows(shipments') :
             \/ row.status = "registered" /\ row.delivered_at = None
             \/ row.status = "delivered" /\ row.delivered_at # None
        /\ \A new \in Rows(shipments') :
             (\A old \in Rows(shipments) : old.id # new.id) =>
               /\ new.status = "registered"
               /\ Len(responses') = Len(responses) + 1
        /\ \A old \in Rows(shipments), new \in Rows(shipments') :
             old.id = new.id =>
               /\ old.status = "delivered" => new.status = "delivered"
               /\ old.status # new.status =>
                    /\ old.status = "registered" /\ new.status = "delivered"
                    /\ new = [old EXCEPT !.status = "delivered", !.delivered_at = new.delivered_at]
                    /\ UNCHANGED <<responses, resolve_vars>>
        /\ \A i, j \in 1..Len(shipments') :
             shipments'[i].id = shipments'[j].id => i = j ]_vars

\* the first shipment is delivered with its time set, the second is still
\* registered
C30_Witness ==
    /\ Len(shipments) = 2
    /\ shipments[1].id = 1 /\ shipments[1].status = "delivered"
    /\ shipments[1].delivered_at = Some(clock)
    /\ shipments[2].id = 2 /\ shipments[2].status = "registered"
    /\ shipments[2].delivered_at = None

(***************************************************************************)
(* Route guards: login_required (src/app/utils/auth.py, lines 34-76) on    *)
(* /employees and /company, and the dashboard / with its own check         *)
(* (src/app/blueprints/main.py, lines 22-50).                              *)
(***************************************************************************)
\* users.role
Roles == {"admin", "employee", "client", "courier"}

\* the roles argument of the decorator of each guarded route
RouteRoles ==
    [r \in {"/employees", "/company"} |->
       IF r = "/employees" THEN {"admin"} ELSE {"employee", "admin"}]

GuardedRoutes == DOMAIN RouteRoles

\* current_user(): the row of session["user_id"], None without a session
current_user == session

\* the decorator without the role check: every logged-in user runs the view
login_required_NoRoleCheck(roles, user) ==
    IF user = None
    THEN [status |-> 302, location |-> "/login", run |-> FALSE]
    ELSE [status |-> 0, location |-> "", run |-> TRUE]

\* the wrapper of login_required(roles): redirect to auth.login without a
\* user, abort(403) for a role outside a non-empty roles, else the view runs
login_required(roles, user) ==
    IF user = None
    THEN [status |-> 302, location |-> "/login", run |-> FALSE]
    ELSE IF roles # {} /\ user[1] \notin roles
         THEN [status |-> 403, location |-> "", run |-> FALSE]
         ELSE [status |-> 0, location |-> "", run |-> TRUE]

\* auth.login, POST with valid credentials of a user with the role
login(role) ==
    /\ session' = Some(role)
    /\ UNCHANGED <<reply, sales_vars, GEO_THROTTLE, clock, req, last_admitted, resolve_vars>>

\* auth.logout: session.clear()
logout ==
    /\ session' = None
    /\ UNCHANGED <<reply, sales_vars, GEO_THROTTLE, clock, req, last_admitted, resolve_vars>>

\* GET /employees
employees_list ==
    /\ LET g == login_required(RouteRoles["/employees"], current_user)
       IN  reply' = [route |-> "/employees", user |-> current_user,
                     status |-> IF g.run THEN 200 ELSE g.status,
                     location |-> g.location, ran |-> g.run]
    /\ UNCHANGED <<session, sales_vars, GEO_THROTTLE, clock, req, last_admitted, resolve_vars>>

\* POST /company: behind the guard the settings are stored and the answer is
\* the redirect to the form
company_post(form) ==
    /\ LET g == login_required(RouteRoles["/company"], current_user)
       IN  /\ company' = IF g.run THEN CompanyFromForm(form) ELSE company
           /\ reply' = [route |-> "/company", user |-> current_user,
                        status |-> IF g.run THEN 302 ELSE g.status,
                        location |-> IF g.run THEN "/company" ELSE g.location,
                        ran |-> g.run]
    /\ UNCHANGED <<session, quote, shipments, responses, GEO_THROTTLE, clock, req,
                   last_admitted, resolve_vars>>

\* GET /: main.py lines 45-50, if not user: redirect(url_for('auth.login'))
dashboard ==
    /\ reply' = IF current_user = None
                THEN [route |-> "/", user |-> None, status |-> 302,
                      location |-> "/login", ran |-> FALSE]
                ELSE [route |-> "/", user |-> current_user, status |-> 200,
                      location |-> "", ran |-> TRUE]
    /\ UNCHANGED <<session, sales_vars, GEO_THROTTLE, clock, req, last_admitted, resolve_vars>>

NextAuth ==
    \/ \E role \in Roles : login(role)
    \/ logout
    \/ employees_list
    \/ \E form \in CompanyForms : company_post(form)
    \/ dashboard

SpecAuth == Init /\ [][NextAuth]_vars

====
